---- MODULE Spec2Model ----
(***************************************************************************)
(* Model of DirectoryWalker (src/directorywalker.py): a coordinator thread *)
(* enumerates the directories below base_path, submits one process_folder  *)
(* task per directory whose name matches a folder pattern to a thread pool *)
(* of `threads` workers, and merges the results as the futures complete.   *)
(*                                                                         *)
(* Names are sequences of one-character strings, paths are sequences of    *)
(* names (relative to the working directory), so that regex search,        *)
(* Path.suffix and Path.resolve are computed rather than assumed.          *)
(***************************************************************************)
EXTENDS Integers, Sequences, FiniteSets, Bags, TLC

\* ---------------------------------------------------------------- bounds
MaxDirs == 2        \* directories below the base path (Init)
MaxThreads == 2     \* largest worker count tried
MaxFaults == 1      \* directories removed by the environment during a call
MaxWide == 20       \* directories of the flat tree of InitWide

\* ----------------------------------------------------------------- names
data == <<"d", "a", "t", "a">>
misc == <<"m", "i", "s", "c">>
a_txt == <<"a", ".", "t", "x", "t">>
b_py == <<"b", ".", "p", "y">>
b_pyc == <<"b", ".", "p", "y", "c">>
home == <<"h", "o", "m", "e">>

DirNames == {data, misc}
FileNames == {a_txt, b_py, b_pyc}

\* the working directory and the base_path argument (relative to it)
Cwd == <<home>>
BasePath == <<data>>

\* a name made of k letters d: the directory names of the flat tree
DName(k) == [i \in 1..k |-> "d"]

\* ------------------------------------------------------ compiled patterns
\* re.compile of the regex  ^? literal $?  (an empty literal with no anchor
\* is the pattern .* under search)
Pat(bol, lit, eol) == [bol |-> bol, lit |-> lit, eol |-> eol]
ReAny == Pat(FALSE, <<>>, FALSE)                     \* .*
ReData == Pat(TRUE, data, TRUE)                      \* ^data$
ReMisc == Pat(TRUE, misc, TRUE)                      \* ^misc$
ReA == Pat(FALSE, <<"a">>, FALSE)                    \* a
ReD == Pat(FALSE, <<"d">>, FALSE)                    \* d
ReStartA == Pat(TRUE, <<"a">>, FALSE)                \* ^a
RePy == Pat(FALSE, <<".", "p", "y">>, TRUE)          \* \.py$

\* the pattern strings
SrcAny == <<".", "*">>
SrcData == <<"^", "d", "a", "t", "a", "$">>
SrcMisc == <<"^", "m", "i", "s", "c", "$">>
SrcA == <<"a">>
SrcD == <<"d">>
SrcStartA == <<"^", "a">>
SrcPy == <<"\\", ".", "p", "y", "$">>
SrcOpen == <<"(">>                                   \* missing )
SrcSet == <<"[", "a">>                               \* unterminated set
SrcStar == <<"*", "a">>                              \* nothing to repeat

GoodSources == {SrcAny, SrcData, SrcMisc, SrcA, SrcD, SrcStartA, SrcPy}
BadSources == {SrcOpen, SrcSet, SrcStar}

\* re.compile on the patterns  ^? body $?  with a body .* or of literal
\* characters (a backslash escapes the next one): re.error for a group or a
\* set that is not closed, a repetition of nothing, a backslash at the end
RECURSIVE BodyCompiles(_, _)
BodyCompiles(b, first) ==
    IF b = <<>> THEN TRUE
    ELSE IF b[1] = "\\" THEN Len(b) >= 2 /\ BodyCompiles(SubSeq(b, 3, Len(b)), FALSE)
    ELSE IF b[1] = "(" THEN (\E k \in 2..Len(b) : b[k] = ")") /\ BodyCompiles(Tail(b), TRUE)
    ELSE IF b[1] = "[" THEN (\E k \in 3..Len(b) : b[k] = "]") /\ BodyCompiles(Tail(b), FALSE)
    ELSE IF b[1] \in {"*", "+", "?"} THEN ~first /\ BodyCompiles(Tail(b), FALSE)
    ELSE BodyCompiles(Tail(b), FALSE)

RECURSIVE Unescape(_)
Unescape(b) ==
    IF b = <<>> THEN <<>>
    ELSE IF b[1] = "\\" THEN <<b[2]>> \o Unescape(SubSeq(b, 3, Len(b)))
    ELSE <<b[1]>> \o Unescape(Tail(b))

\* (a slip: a pattern that does not compile is kept as a literal and fails
\* only when it is used)
CompileLazily(src) ==
    [ok |-> TRUE, pat |-> [bol |-> FALSE, lit |-> src, eol |-> FALSE]]

Compile(src) ==
    LET n == Len(src)
        bol == n >= 1 /\ src[1] = "^"
        eol == n >= 1 /\ src[n] = "$" /\ (n = 1 \/ src[n - 1] # "\\")
        body == SubSeq(src, IF bol THEN 2 ELSE 1, IF eol THEN n - 1 ELSE n)
    IN  IF BodyCompiles(body, TRUE)
        THEN [ok |-> TRUE,
              pat |-> [bol |-> bol,
                       lit |-> IF body = <<".", "*">> THEN <<>> ELSE Unescape(body),
                       eol |-> eol]]
        ELSE [ok |-> FALSE, pat |-> <<>>]

\* the pattern string a compiled pattern was made from
SourceOf(p) == CHOOSE src \in GoodSources : Compile(src).pat = p

FolderPatternLists == {<<>>, <<ReData>>, <<ReMisc, ReA>>}
FilePatterns == {ReAny, ReStartA}
\* an optional pattern is a sequence of at most one pattern: <<>> is None
ExtensionPatterns == {<<>>, <<RePy>>}

\* pattern.search(s): the literal occurs at some position of s, at the
\* start if anchored with ^ and up to the end if anchored with $
OccursAt(lit, s, i) ==
    /\ i + Len(lit) - 1 <= Len(s)
    /\ \A k \in 1..Len(lit) : s[i + k - 1] = lit[k]

Search(p, s) ==
    \E i \in 1..(Len(s) + 1) :
        /\ OccursAt(p.lit, s, i)
        /\ p.bol => i = 1
        /\ p.eol => i + Len(p.lit) - 1 = Len(s)

\* ------------------------------------------------------------------ paths
Name(p) == p[Len(p)]
Parent(p) == SubSeq(p, 1, Len(p) - 1)
IsPrefix(p, q) == Len(p) <= Len(q) /\ SubSeq(q, 1, Len(p)) = p
Below(p, q) == IsPrefix(p, q) /\ p # q               \* q strictly below p

\* Path.suffix: the name from its last dot on, unless that dot is the first
\* or the last character
LastDot(n) ==
    LET D == {i \in 1..Len(n) : n[i] = "."}
    IN  IF D = {} THEN 0 ELSE CHOOSE i \in D : \A j \in D : j <= i

Suffix(n) ==
    LET i == LastDot(n)
    IN  IF 1 < i /\ i < Len(n) THEN SubSeq(n, i, Len(n)) ELSE <<>>

\* Path.resolve: the absolute path (the tree has no symbolic links)
Resolve(p) == Cwd \o p

\* the order in which the file system lists entries: by name, a directory
\* before what it contains
Alphabet == <<".", "a", "b", "c", "d", "e", "h", "i", "m", "o", "p", "s", "t", "x", "y">>
CharRank(c) == CHOOSE i \in 1..Len(Alphabet) : Alphabet[i] = c

RECURSIVE NameLess(_, _)
NameLess(m, n) ==
    IF m = <<>> THEN n # <<>>
    ELSE IF n = <<>> THEN FALSE
    ELSE IF m[1] = n[1] THEN NameLess(Tail(m), Tail(n))
    ELSE CharRank(m[1]) < CharRank(n[1])

RECURSIVE PathLess(_, _)
PathLess(p, q) ==
    IF p = <<>> THEN q # <<>>
    ELSE IF q = <<>> THEN FALSE
    ELSE IF p[1] = q[1] THEN PathLess(Tail(p), Tail(q))
    ELSE NameLess(p[1], q[1])

First(S) == CHOOSE p \in S : \A q \in S \ {p} : PathLess(p, q)

RECURSIVE Listing(_)
Listing(S) ==
    IF S = {} THEN <<>>
    ELSE LET p == First(S) IN <<p>> \o Listing(S \ {p})

RECURSIVE ToSet(_)
ToSet(s) == IF s = <<>> THEN {} ELSE {Head(s)} \cup ToSet(Tail(s))

\* ------------------------------------------------------------------ state
VARIABLES
    args,                \* the pattern strings given to DirectoryWalker(...)
    baseKind,            \* "dir", "file" or "missing": what base_path names
    dirs,                \* the directories below base_path
    files,               \* the regular files below base_path
    folder_patterns,     \* self.folder_patterns
    file_pattern,        \* self.file_pattern
    extension_pattern,   \* self.extension_pattern (<<>> for None)
    threads,             \* self.threads
    logging_enabled,     \* self.logging_enabled
    pc,                  \* where the coordinator is in find_matching_files
    matched_files,       \* the local list matched_files
    total_folders,       \* the local total_folders
    processed_folders,   \* the local processed_folders
    submitted,           \* the folders of future_to_folder
    queue,               \* the executor's work queue (first in, first out)
    running,             \* the folders a worker is scanning
    done,                \* bag of outcomes of finished futures not yet yielded
    logged,              \* what self.logger.info has received, in order
    returned,            \* the lists returned by the calls so far
    faults               \* directories removed while a call was running

fs == <<baseKind, dirs, files>>
walker == <<folder_patterns, file_pattern, extension_pattern, threads, logging_enabled>>
pool == <<submitted, queue, running, done>>
locals == <<matched_files, total_folders, processed_folders>>
vars == <<args, fs, walker, pc, locals, pool, logged, returned, faults>>

\* ------------------------------------------------------- the walker's code
Max(a, b) == IF a >= b THEN a ELSE b

is_dir(p) == p \in dirs \/ (p = BasePath /\ baseKind = "dir")
is_file(p) == p \in files

\* base_path.rglob('*'): every entry below base_path, nothing when base_path
\* is not a directory; base_path itself is not among them
Rglob == IF baseKind = "dir" THEN {p \in dirs \cup files : Below(BasePath, p)} ELSE {}

\* (a slip: the folder predicate also gates descent, so a folder counts only
\* when every folder between it and base_path matches too)
should_traverse_gating(folder) ==
    \A k \in (Len(BasePath) + 1)..Len(folder) :
        \E i \in 1..Len(folder_patterns) : Search(folder_patterns[i], folder[k])

\* (a slip: all() in place of any(), true of an empty pattern list)
should_traverse_all(folder) ==
    \A i \in 1..Len(folder_patterns) : Search(folder_patterns[i], Name(folder))

\* should_traverse: any(pattern.search(folder.name) ...)
should_traverse(folder) ==
    \E i \in 1..Len(folder_patterns) : Search(folder_patterns[i], Name(folder))

\* the filter of both generator expressions over rglob
Eligible == {p \in Rglob : is_dir(p) /\ should_traverse(p)}

\* the two tests of process_folder on one entry
file_match(file) == Search(file_pattern, Name(file))
extension_match(file) ==
    extension_pattern = <<>> \/ Search(extension_pattern[1], Suffix(Name(file)))

\* folder.iterdir(): the immediate entries, or OSError when folder is not
\* (or no longer) a directory
Iterdir(folder) == Listing({e \in dirs \cup files : Parent(e) = folder})

\* (a slip: the is_file test left out)
KeepAnyEntry(file) == file_match(file) /\ extension_match(file)

Keep(file) == is_file(file) /\ file_match(file) /\ extension_match(file)

\* process_folder: the outcome of the future that runs it
process_folder(folder) ==
    IF ~is_dir(folder)
    THEN [ok |-> FALSE, files |-> <<>>]
    ELSE LET sel == SelectSeq(Iterdir(folder), Keep)
         IN  [ok |-> TRUE, files |-> [i \in 1..Len(sel) |-> Resolve(sel[i])]]

\* (a slip: the result replaces the list instead of extending it)
ExtendReplacing(list, result) == result

\* matched_files.extend(future.result())
Extend(list, result) == list \o result

\* (a slip: a progress message after every completion)
ProgressDueAlways(processed, total) == TRUE

\* processed_folders % max(1, total_folders // 10) == 0
ProgressDue(processed, total) == processed % Max(1, total \div 10) = 0

\* self.log(message)
Progress(p, t) == [kind |-> "progress", processed |-> p, total |-> t]
Completed == [kind |-> "completed", processed |-> 0, total |-> 0]
\* (a slip: the logging_enabled flag ignored)
LogAlways(message) == Append(logged, message)

Log(message) ==
    IF logging_enabled THEN Append(logged, message) ELSE logged

\* ------------------------------------------------------------------- Init
RECURSIVE PathsAt(_)
PathsAt(k) ==
    IF k = 0 THEN {BasePath}
    ELSE {Append(p, n) : p \in PathsAt(k - 1), n \in DirNames}

DirUniverse == UNION {PathsAt(k) : k \in 1..MaxDirs}

Trees ==
    {D \in SUBSET DirUniverse :
        /\ Cardinality(D) <= MaxDirs
        /\ \A p \in D : Parent(p) = BasePath \/ Parent(p) \in D}

\* every directory of the tree, base_path included, holds the same files
FilesIn(D, N) == {Append(p, n) : p \in D \cup {BasePath}, n \in N}
FileChoices == {{}, {a_txt}, FileNames}
FileSets(D) == {FilesIn(D, N) : N \in FileChoices}

InitCall ==
    /\ pc = "idle"
    /\ matched_files = <<>>
    /\ total_folders = 0
    /\ processed_folders = 0
    /\ submitted = {}
    /\ queue = <<>>
    /\ running = {}
    /\ done = EmptyBag
    /\ logged = <<>>
    /\ returned = <<>>
    /\ faults = 0

\* the arguments a walker with these compiled patterns was constructed from
ArgsOf(fps, fp, ep) ==
    [folder_patterns |-> [i \in 1..Len(fps) |-> SourceOf(fps[i])],
     file_pattern |-> SourceOf(fp),
     extension_pattern |-> [i \in 1..Len(ep) |-> SourceOf(ep[i])]]

InitWalker ==
    /\ folder_patterns \in FolderPatternLists
    /\ file_pattern \in FilePatterns
    /\ extension_pattern \in ExtensionPatterns
    /\ args = ArgsOf(folder_patterns, file_pattern, extension_pattern)
    /\ threads \in 1..MaxThreads
    /\ logging_enabled \in BOOLEAN

Init ==
    /\ baseKind \in {"dir", "file", "missing"}
    /\ dirs \in (IF baseKind = "dir" THEN Trees ELSE {{}})
    /\ files \in (IF baseKind = "dir" THEN FileSets(dirs) ELSE {{}})
    /\ InitWalker
    /\ InitCall

\* a flat tree of n empty directories d, dd, ddd, ... that all match the
\* folder pattern d, scanned by one worker
WideTree(n) == {BasePath \o <<DName(k)>> : k \in 1..n}

InitWide ==
    /\ baseKind = "dir"
    /\ dirs \in {WideTree(n) : n \in 0..MaxWide}
    /\ files = {}
    /\ folder_patterns = <<ReD>>
    /\ file_pattern = ReAny
    /\ extension_pattern = <<>>
    /\ args = ArgsOf(folder_patterns, file_pattern, extension_pattern)
    /\ threads = 1
    /\ logging_enabled \in BOOLEAN
    /\ InitCall

\* before construction: the arguments of DirectoryWalker(...), some of them
\* pattern strings that do not compile; no attribute is set yet
FolderArgs == {<<>>, <<SrcData>>, <<SrcMisc, SrcA>>, <<SrcData, SrcOpen>>}
FileArgs == {SrcAny, SrcStartA, SrcStar}
ExtensionArgs == {<<>>, <<SrcPy>>, <<SrcSet>>}

InitBuild ==
    /\ args \in [folder_patterns : FolderArgs, file_pattern : FileArgs,
                 extension_pattern : ExtensionArgs]
    /\ baseKind \in {"dir", "file", "missing"}
    /\ dirs \in (IF baseKind = "dir" THEN Trees ELSE {{}})
    /\ files \in (IF baseKind = "dir" THEN FileSets(dirs) ELSE {{}})
    /\ folder_patterns = <<>>
    /\ file_pattern = <<>>
    /\ extension_pattern = <<>>
    /\ threads = 0
    /\ logging_enabled = FALSE
    /\ pc = "new"
    /\ matched_files = <<>>
    /\ total_folders = 0
    /\ processed_folders = 0
    /\ submitted = {}
    /\ queue = <<>>
    /\ running = {}
    /\ done = EmptyBag
    /\ logged = <<>>
    /\ returned = <<>>
    /\ faults = 0

\* ---------------------------------------------------------------- actions
\* __init__: the patterns are compiled in the order folder, file, extension;
\* re.error leaves the constructor and no walker exists
Construct ==
    /\ pc = "new"
    /\ LET fps == [i \in 1..Len(args.folder_patterns) |-> Compile(args.folder_patterns[i])]
           fp == Compile(args.file_pattern)
           ep == [i \in 1..Len(args.extension_pattern) |-> Compile(args.extension_pattern[i])]
       IN  IF /\ \A i \in 1..Len(fps) : fps[i].ok
              /\ fp.ok
              /\ \A i \in 1..Len(ep) : ep[i].ok
           THEN /\ folder_patterns' = [i \in 1..Len(fps) |-> fps[i].pat]
                /\ file_pattern' = fp.pat
                /\ extension_pattern' = [i \in 1..Len(ep) |-> ep[i].pat]
                /\ threads' \in 1..MaxThreads
                /\ logging_enabled' \in BOOLEAN
                /\ pc' = "idle"
           ELSE /\ pc' = "failed"
                /\ UNCHANGED walker
    /\ UNCHANGED <<args, fs, locals, pool, logged, returned, faults>>

\* (a slip: matched_files kept on the walker from one call to the next)
EnterKeeping ==
    /\ matched_files' = matched_files
    /\ total_folders' = Cardinality(Eligible)
    /\ processed_folders' = 0
    /\ submitted' = {}
    /\ queue' = <<>>
    /\ running' = {}
    /\ done' = EmptyBag
    /\ pc' = "submit"
    /\ UNCHANGED <<args, fs, walker, logged, returned, faults>>

\* (a slip: the count takes every directory, the folder patterns left out)
EnterCountingAll ==
    /\ matched_files' = <<>>
    /\ total_folders' = Cardinality({p \in Rglob : is_dir(p)})
    /\ processed_folders' = 0
    /\ submitted' = {}
    /\ queue' = <<>>
    /\ running' = {}
    /\ done' = EmptyBag
    /\ pc' = "submit"
    /\ UNCHANGED <<args, fs, walker, logged, returned, faults>>

\* find_matching_files up to the creation of the executor: the first rglob
\* counts the eligible folders
Enter ==
    /\ matched_files' = <<>>
    /\ total_folders' = Cardinality(Eligible)
    /\ processed_folders' = 0
    /\ submitted' = {}
    /\ queue' = <<>>
    /\ running' = {}
    /\ done' = EmptyBag
    /\ pc' = "submit"
    /\ UNCHANGED <<args, fs, walker, logged, returned, faults>>

Call == pc = "idle" /\ Enter

\* the second of two successive calls on the same walker
CallAgain == pc = "returned" /\ Len(returned) = 1 /\ Enter

\* one step of the dict comprehension: the second rglob yields its next
\* eligible folder and executor.submit queues a task for it
Submit ==
    /\ pc = "submit"
    /\ Eligible \ submitted # {}
    /\ LET folder == First(Eligible \ submitted)
       IN  /\ submitted' = submitted \cup {folder}
           /\ queue' = Append(queue, folder)
    /\ UNCHANGED <<args, fs, walker, pc, locals, running, done, logged, returned, faults>>

\* the second rglob is exhausted: as_completed starts
AsCompleted ==
    /\ pc = "submit"
    /\ Eligible \ submitted = {}
    /\ pc' = "drain"
    /\ UNCHANGED <<args, fs, walker, locals, pool, logged, returned, faults>>

\* (a slip: the pool starts a thread for every task it is given)
StartUnbounded ==
    /\ queue # <<>>
    /\ running' = running \cup {Head(queue)}
    /\ queue' = Tail(queue)
    /\ UNCHANGED <<args, fs, walker, pc, locals, submitted, done, logged, returned, faults>>

\* (a slip: the pool keeps one of its workers back)
StartOffByOne ==
    /\ queue # <<>>
    /\ Cardinality(running) < threads - 1
    /\ running' = running \cup {Head(queue)}
    /\ queue' = Tail(queue)
    /\ UNCHANGED <<args, fs, walker, pc, locals, submitted, done, logged, returned, faults>>

\* a free worker of the pool takes the oldest queued task
Start ==
    /\ queue # <<>>
    /\ Cardinality(running) < threads
    /\ running' = running \cup {Head(queue)}
    /\ queue' = Tail(queue)
    /\ UNCHANGED <<args, fs, walker, pc, locals, submitted, done, logged, returned, faults>>

\* (a slip: the worker appends to the shared list and counts by itself)
FinishMerging(folder) ==
    /\ folder \in running
    /\ running' = running \ {folder}
    /\ matched_files' = matched_files \o process_folder(folder).files
    /\ processed_folders' = processed_folders + 1
    /\ UNCHANGED <<args, fs, walker, pc, total_folders, submitted, queue, done, logged, returned, faults>>

\* a worker runs process_folder to its end: the future is finished
Finish(folder) ==
    /\ folder \in running
    /\ running' = running \ {folder}
    /\ done' = done (+) SetToBag({process_folder(folder)})
    /\ UNCHANGED <<args, fs, walker, pc, locals, submitted, queue, logged, returned, faults>>

\* (a slip: only a folder that gave matches is counted as processed)
DrainCountingMatches(outcome) ==
    /\ pc = "drain"
    /\ BagIn(outcome, done)
    /\ done' = done (-) SetToBag({outcome})
    /\ processed_folders' =
           IF outcome.files = <<>> THEN processed_folders ELSE processed_folders + 1
    /\ IF outcome.ok
       THEN /\ matched_files' = Extend(matched_files, outcome.files)
            /\ logged' = IF ProgressDue(processed_folders', total_folders)
                         THEN Log(Progress(processed_folders', total_folders))
                         ELSE logged
            /\ pc' = "drain"
       ELSE /\ pc' = "unwind"
            /\ UNCHANGED <<matched_files, logged>>
    /\ UNCHANGED <<args, fs, walker, total_folders, submitted, queue, running, returned, faults>>

\* one iteration of the loop over as_completed; future.result() re-raises
\* what the task raised, which leaves the loop for the exit of the with block
Drain(outcome) ==
    /\ pc = "drain"
    /\ BagIn(outcome, done)
    /\ done' = done (-) SetToBag({outcome})
    /\ processed_folders' = processed_folders + 1
    /\ IF outcome.ok
       THEN /\ matched_files' = Extend(matched_files, outcome.files)
            /\ logged' = IF ProgressDue(processed_folders', total_folders)
                         THEN Log(Progress(processed_folders', total_folders))
                         ELSE logged
            /\ pc' = "drain"
       ELSE /\ pc' = "unwind"
            /\ UNCHANGED <<matched_files, logged>>
    /\ UNCHANGED <<args, fs, walker, total_folders, submitted, queue, running, returned, faults>>

\* every future has been yielded: the with block is left, the completion
\* message is logged and the list is returned
Complete ==
    /\ pc = "drain"
    /\ queue = <<>> /\ running = {} /\ done = EmptyBag
    /\ logged' = Log(Completed)
    /\ returned' = Append(returned, matched_files)
    /\ pc' = "returned"
    /\ UNCHANGED <<args, fs, walker, locals, pool, faults>>

\* (a slip: the exception leaves the with block without waiting)
PropagateAtOnce ==
    /\ pc = "unwind"
    /\ pc' = "raised"
    /\ UNCHANGED <<args, fs, walker, locals, pool, logged, returned, faults>>

\* the exit of the with block during an exception: shutdown(wait=True) lets
\* every submitted task run, then the exception reaches the caller
Propagate ==
    /\ pc = "unwind"
    /\ queue = <<>> /\ running = {}
    /\ pc' = "raised"
    /\ UNCHANGED <<args, fs, walker, locals, pool, logged, returned, faults>>

\* the environment removes a directory, with all it contains, during a call
Remove(folder) ==
    /\ pc \in {"submit", "drain"}
    /\ faults < MaxFaults
    /\ folder \in dirs
    /\ dirs' = {p \in dirs : ~IsPrefix(folder, p)}
    /\ files' = {p \in files : ~IsPrefix(folder, p)}
    /\ faults' = faults + 1
    /\ UNCHANGED <<args, baseKind, walker, pc, locals, pool, logged, returned>>

Next ==
    \/ Call
    \/ Submit
    \/ AsCompleted
    \/ Start
    \/ \E folder \in running : Finish(folder)
    \/ \E outcome \in BagToSet(done) : Drain(outcome)
    \/ Complete
    \/ Propagate
    \/ \E folder \in dirs : Remove(folder)

Spec == Init /\ [][Next]_vars

\* the walker on a file system that nothing else changes
NextStill ==
    \/ Call
    \/ Submit
    \/ AsCompleted
    \/ Start
    \/ \E folder \in running : Finish(folder)
    \/ \E outcome \in BagToSet(done) : Drain(outcome)
    \/ Complete

\* construction, then one call on an unchanged file system
NextBuild == Construct \/ NextStill

SpecBuild == InitBuild /\ [][NextBuild]_vars

\* one call on a flat tree of up to MaxWide eligible folders
SpecWide == InitWide /\ [][NextStill]_vars

\* two successive calls on an unchanged file system
NextTwice == NextStill \/ CallAgain

SpecTwice == Init /\ [][NextTwice]_vars

\* the steps of the thread that calls find_matching_files
Coordinator ==
    \/ Call
    \/ Submit
    \/ AsCompleted
    \/ \E outcome \in BagToSet(done) : Drain(outcome)
    \/ Complete

\* the steps of the threads of the pool
Worker == Start \/ \E folder \in running : Finish(folder)

\* a walker with logging on whose folder patterns take every directory of
\* the tree, each directory holding one file
InitLive ==
    /\ baseKind = "dir"
    /\ dirs \in Trees
    /\ files = FilesIn(dirs, {a_txt})
    /\ folder_patterns = <<ReMisc, ReA>>
    /\ file_pattern = ReAny
    /\ extension_pattern = <<>>
    /\ args = ArgsOf(folder_patterns, file_pattern, extension_pattern)
    /\ threads \in 1..MaxThreads
    /\ logging_enabled = TRUE
    /\ InitCall

\* one call on an unchanged file system, under a scheduler that lets the
\* calling thread and the pool's workers run, every listing coming to an end
SpecLive ==
    /\ InitLive
    /\ [][NextStill]_vars
    /\ WF_vars(Coordinator)
    /\ WF_vars(Worker)

\* ----------------------------------------------------------------- claims
Last(s) == s[Len(s)]
Aborted == pc \in {"unwind", "raised"}
Dispatched == pc \in {"drain", "unwind", "returned", "raised"}

\* the purely sequential traversal: the eligible folders scanned one after
\* another, in the order of the listing
RECURSIVE SequentialScan(_)
SequentialScan(folders) ==
    IF folders = <<>> THEN <<>>
    ELSE process_folder(Head(folders)).files \o SequentialScan(Tail(folders))

Reference == SequentialScan(Listing(Eligible))

\* C1: on an unchanged tree the call never aborts, and the set of returned
\* paths equals the set of the sequential traversal, for every worker count
\* and every order of completion
C1_SameSetAsSequential ==
    faults = 0 =>
        /\ ~Aborted
        /\ pc = "returned" => ToSet(Last(returned)) = ToSet(Reference)

\* two workers, two folders with a match each, merged against the order of
\* the sequential traversal
C1_Witness ==
    /\ pc = "returned" /\ faults = 0 /\ threads = 2
    /\ Len(Last(returned)) = 2
    /\ Cardinality(submitted) = 2
    /\ Last(returned) # Reference

\* C2: the folder predicate never gates descent: once the tasks are
\* submitted on an unchanged tree, every directory below base_path whose
\* own name matches a folder pattern has been dispatched, whatever the names
\* of the directories above it
C2_DescentNotGated ==
    (Dispatched /\ faults = 0) =>
        \A d \in dirs :
            (\E i \in 1..Len(folder_patterns) : Search(folder_patterns[i], Name(d)))
                => d \in submitted

\* base/misc/data/a.txt is returned with the folder pattern ^data$
C2_Witness ==
    /\ pc = "returned" /\ faults = 0
    /\ folder_patterns = <<ReData>>
    /\ BasePath \o <<misc>> \in dirs \ submitted
    /\ BasePath \o <<misc, data>> \in submitted
    /\ Resolve(BasePath \o <<misc, data, a_txt>>) \in ToSet(Last(returned))

\* C3 (as claimed): a folder that cannot be listed any more when its task
\* scans it gives an empty result, and the call does not abort
C3_UnlistableFolderIsSkipped ==
    /\ \A o \in BagToSet(done) : o.ok
    /\ ~Aborted

\* C4 (as claimed): when base_path is not a directory the call fails before
\* dispatch: nothing is logged and no list is returned
C4_MissingBaseFails ==
    baseKind # "dir" => (logged = <<>> /\ returned = <<>> /\ pc # "returned")

IsProgress(e) == e.kind = "progress"
IsCompleted(e) == e.kind = "completed"
ProgressEvents == SelectSeq(logged, IsProgress)

\* a tenth of the total by integer division, one when that is zero
TenthOf(total) == IF total < 10 THEN 1 ELSE total \div 10

\* C5: with progress reporting on, while the loop over the completions runs
\* and after it, the progress events logged are exactly one event
\* (k, total_folders) for every multiple k of a tenth of total_folders (by
\* integer division, at least one) up to processed_folders, in this order,
\* and none for the other completions; with no eligible folder there is none
C5_ProgressAtTenths ==
    (logging_enabled /\ pc \in {"drain", "returned"}) =>
        LET tenth == TenthOf(total_folders)
        IN  /\ Len(ProgressEvents) = processed_folders \div tenth
            /\ \A i \in 1..Len(ProgressEvents) :
                   ProgressEvents[i] = Progress(i * tenth, total_folders)
            /\ total_folders = 0 => ProgressEvents = <<>>

\* twenty folders, three completions drained, one event, for the second
C5_Witness ==
    /\ logging_enabled /\ pc = "drain"
    /\ total_folders = 20 /\ processed_folders = 3
    /\ ProgressEvents = <<Progress(2, 20)>>

\* C6: the completion event is logged once, by a call that returns with
\* logging enabled, as the last event, when every submitted task has
\* finished and been merged; with logging disabled nothing is ever logged
\* and the returned set is still that of the sequential traversal
C6_CompletionOnceAndLast ==
    LET n == Len(SelectSeq(logged, IsCompleted))
    IN  /\ n = IF logging_enabled /\ pc = "returned" THEN 1 ELSE 0
        /\ n = 1 =>
              /\ Last(logged) = Completed
              /\ queue = <<>> /\ running = {} /\ done = EmptyBag
              /\ processed_folders = Cardinality(submitted)
        /\ ~logging_enabled => logged = <<>>
        /\ (~logging_enabled /\ pc = "returned" /\ faults = 0) =>
              ToSet(Last(returned)) = ToSet(Reference)

\* a call that returned after two progress events and the completion event
C6_Witness ==
    /\ pc = "returned" /\ logging_enabled
    /\ Len(logged) = 3
    /\ Last(logged) = Completed
    /\ Len(Last(returned)) >= 2

\* C7 (as claimed): a file directly in base_path is returned exactly when
\* the name of base_path matches a folder pattern and the file matches the
\* file and extension patterns
C7_BaseScannedIfItMatches ==
    (pc = "returned" /\ faults = 0) =>
        \A f \in files :
            Parent(f) = BasePath =>
                (Resolve(f) \in ToSet(Last(returned))
                    <=> (should_traverse(BasePath) /\ file_match(f) /\ extension_match(f)))

\* the regular files immediately in a folder whose name the file pattern
\* matches and whose extension, dot included, the extension pattern (if
\* any) matches
Matching(folder) ==
    {f \in files :
        /\ Parent(f) = folder
        /\ Search(file_pattern, Name(f))
        /\ extension_pattern # <<>> => Search(extension_pattern[1], Suffix(Name(f)))}

\* C8: a task that finishes the scan of a listable folder adds one outcome:
\* the resolved paths of exactly the matching regular files immediately in
\* that folder, each once; and every path a call returns on an unchanged
\* tree is such a file of a submitted folder (nothing from deeper down)
C8_ScanIsImmediateFiles ==
    /\ [][\A folder \in running :
            (running' = running \ {folder} /\ folder \in dirs) =>
                \E o \in BagToSet(done') :
                    /\ done' = done (+) SetToBag({o})
                    /\ o.ok
                    /\ ToSet(o.files) = {Resolve(f) : f \in Matching(folder)}
                    /\ Len(o.files) = Cardinality(Matching(folder))]_vars
    /\ []((pc = "returned" /\ faults = 0) =>
            ToSet(Last(returned)) =
                UNION {{Resolve(f) : f \in Matching(folder)} : folder \in submitted})

\* data/data is scanned, its a.txt is returned, the a.txt of its subfolder
\* misc is not
C8_Witness ==
    /\ pc = "returned" /\ faults = 0
    /\ folder_patterns = <<ReData>>
    /\ BasePath \o <<data>> \in submitted
    /\ BasePath \o <<data, misc, a_txt>> \in files
    /\ Resolve(BasePath \o <<data, a_txt>>) \in ToSet(Last(returned))
    /\ Resolve(BasePath \o <<data, misc, a_txt>>) \notin ToSet(Last(returned))

\* C9: two successive calls on an unchanged file system return equal sets,
\* and lists of equal length: nothing of the first call's aggregate or
\* progress state is left in the second
C9_Idempotent ==
    /\ Len(returned) = 2 =>
          /\ ToSet(returned[1]) = ToSet(returned[2])
          /\ Len(returned[1]) = Len(returned[2])
    /\ (Len(returned) = 1 /\ pc = "submit") =>
          (matched_files = <<>> /\ processed_folders = 0)

\* two calls with two workers that returned the same paths in two orders
C9_Witness ==
    /\ Len(returned) = 2 /\ threads = 2
    /\ Len(returned[1]) >= 2
    /\ returned[1] # returned[2]

\* C10: with no folder pattern no folder is eligible: the count is 0, no
\* task is ever submitted, and the call returns the empty list
C10_NoPatternNoFolder ==
    folder_patterns = <<>> =>
        /\ total_folders = 0
        /\ submitted = {} /\ queue = <<>> /\ running = {} /\ done = EmptyBag
        /\ ~Aborted
        /\ pc = "returned" => Last(returned) = <<>>

\* a tree with folders and files, no folder pattern, an empty list returned
C10_Witness ==
    /\ folder_patterns = <<>> /\ pc = "returned"
    /\ dirs # {} /\ files # {}
    /\ Last(returned) = <<>>

\* C11: a folder, file or extension pattern string that does not compile
\* makes the constructor fail: no attribute is ever set, no call starts,
\* nothing is counted, submitted, logged or returned
C11_BadPatternFailsConstruction ==
    (\/ \E i \in 1..Len(args.folder_patterns) : args.folder_patterns[i] \in BadSources
     \/ args.file_pattern \in BadSources
     \/ \E i \in 1..Len(args.extension_pattern) : args.extension_pattern[i] \in BadSources)
        => /\ pc \in {"new", "failed"}
           /\ folder_patterns = <<>> /\ file_pattern = <<>> /\ extension_pattern = <<>>
           /\ threads = 0
           /\ total_folders = 0 /\ submitted = {} /\ queue = <<>> /\ running = {}
           /\ logged = <<>> /\ returned = <<>>

\* the constructor failed on the file pattern *a on a tree with a folder
\* that the folder pattern matches
C11_Witness ==
    /\ pc = "failed"
    /\ args.folder_patterns = <<SrcData>>
    /\ args.file_pattern = SrcStar
    /\ BasePath \o <<data>> \in dirs

\* C12: a step of a worker (it takes a task or finishes one) leaves
\* matched_files, processed_folders and total_folders alone; they change
\* only in a step of the coordinator, when a call starts or while it drains
\* the completions, and then one completion per step
C12_SingleWriter ==
    [][/\ running' # running =>
              UNCHANGED <<matched_files, processed_folders, total_folders>>
       /\ (matched_files' # matched_files \/ processed_folders' # processed_folders) =>
              \/ pc \in {"idle", "returned"} /\ pc' = "submit"
              \/ /\ pc = "drain"
                 /\ running' = running /\ queue' = queue
                 /\ BagCardinality(done') = BagCardinality(done) - 1]_vars

\* the coordinator has merged one result while a worker is scanning
C12_Witness ==
    /\ pc = "drain"
    /\ running # {}
    /\ processed_folders = 1
    /\ matched_files # <<>>

\* C13 (as claimed): every submitted folder is one task that is in exactly
\* one place (queued, running, finished or drained), no folder is queued or
\* run twice, and when the call ends, however it ends, the result of every
\* finished task has been merged: none is left undrained
C13_EveryTaskMergedOnce ==
    /\ Cardinality(submitted) =
           Len(queue) + Cardinality(running) + BagCardinality(done) + processed_folders
    /\ Cardinality(ToSet(queue)) = Len(queue)
    /\ ToSet(queue) \cap running = {}
    /\ ToSet(queue) \cup running \subseteq submitted
    /\ pc \in {"returned", "raised"} =>
           (done = EmptyBag /\ processed_folders = Cardinality(submitted))

\* C14 (as claimed): the enumeration has finished before any task is
\* dispatched: no worker scans a folder while the coordinator still
\* enumerates, and the dispatched folders are as many as were counted
\* (read on an unchanged file system, the reading kindest to the claim)
C14_EnumerationBeforeDispatch ==
    faults = 0 =>
        /\ ~(pc = "submit" /\ Eligible \ submitted # {} /\ running # {})
        /\ Dispatched => Cardinality(submitted) = total_folders

\* C14 (amended): the count is taken before any task exists; the tasks are
\* submitted during a second enumeration, while workers may already scan;
\* workers scan submitted folders only; and on an unchanged file system
\* the folders dispatched are the eligible folders that were counted
C14_CountedThenDispatched ==
    /\ pc = "idle" => (submitted = {} /\ queue = <<>> /\ running = {})
    /\ ToSet(queue) \cup running \subseteq submitted
    /\ (faults = 0 /\ pc = "submit") =>
           (submitted \subseteq Eligible /\ total_folders = Cardinality(Eligible))
    /\ (faults = 0 /\ Dispatched) =>
           (submitted = Eligible /\ total_folders = Cardinality(submitted))

\* a worker scans the first folder while the second is not submitted yet
C14_Witness ==
    /\ faults = 0 /\ pc = "submit"
    /\ total_folders = 2
    /\ running # {}
    /\ Eligible \ submitted # {}

\* C15: the pool is bounded: never more than threads scan tasks run at the
\* same time; a task starts running only as the oldest of the queue and
\* only while fewer than threads tasks run, so the others wait queued
C15_PoolBounded ==
    /\ [](Cardinality(running) <= threads)
    /\ [][running' \ running # {} =>
            /\ queue # <<>>
            /\ Cardinality(running) < threads
            /\ running' = running \cup {Head(queue)}
            /\ queue' = Tail(queue)]_vars
    /\ [][Len(queue') > Len(queue) => queue' = Append(queue, Last(queue'))]_vars

\* the only worker is busy while another task waits in the queue
C15_Witness ==
    /\ threads = 1
    /\ Cardinality(running) = 1
    /\ queue # <<>>

\* C16: under fair scheduling a call terminates: the queue and the workers
\* run empty, every completion is drained, the call returns; and whenever
\* the coordinator has to wait, some worker is able to take a step
C16_Terminates ==
    /\ (pc = "idle") ~> (pc = "returned")
    /\ (queue # <<>> \/ running # {}) ~> (queue = <<>> /\ running = {})
    /\ (done # EmptyBag) ~> (done = EmptyBag)
    /\ [](pc = "returned" =>
             /\ queue = <<>> /\ running = {} /\ done = EmptyBag
             /\ processed_folders = Cardinality(submitted))
    /\ []((pc = "drain" /\ done = EmptyBag /\ (queue # <<>> \/ running # {}))
             => ENABLED Worker)

\* a call with a single worker and two tasks has returned
C16_Witness ==
    /\ pc = "returned"
    /\ threads = 1
    /\ Cardinality(submitted) = 2
    /\ processed_folders = 2

\* C17: on an unchanged file system 0 <= processed_folders <= total_folders;
\* processed_folders never decreases and grows by one exactly when a
\* completion is drained; total_folders is fixed once counted; at the
\* return both equal the number of dispatched tasks
C17_ProgressCounters ==
    /\ [](faults = 0 =>
             /\ 0 <= processed_folders
             /\ processed_folders <= total_folders)
    /\ [][processed_folders' \in {processed_folders, processed_folders + 1}]_vars
    /\ [][processed_folders' = processed_folders + 1
              <=> BagCardinality(done') = BagCardinality(done) - 1]_vars
    /\ [][pc # "idle" => total_folders' = total_folders]_vars
    /\ []((faults = 0 /\ pc = "returned") =>
             /\ processed_folders = total_folders
             /\ total_folders = Cardinality(submitted))

\* a call over two eligible folders has returned, nothing having changed
C17_Witness ==
    /\ pc = "returned"
    /\ faults = 0
    /\ total_folders = 2
    /\ processed_folders = 2
    /\ Cardinality(submitted) = 2

\* C18: draining the completion of a task that raised aborts the call:
\* from then on nothing is merged, counted, logged or returned and no
\* completion message appears; the error reaches the caller only when no
\* submitted task is queued or running any more, none having been cancelled
C18_ErrorPropagates ==
    /\ [][(\E o \in BagToSet(done) : ~o.ok /\ done' = done (-) SetToBag({o}))
              => (pc = "drain" /\ pc' = "unwind")]_vars
    /\ [](Aborted =>
             /\ returned = <<>>
             /\ \A i \in 1..Len(logged) : ~IsCompleted(logged[i]))
    /\ [][Aborted =>
             /\ pc' \in {"unwind", "raised"}
             /\ UNCHANGED <<matched_files, processed_folders, logged, returned>>]_vars
    /\ [](pc = "raised" =>
             /\ queue = <<>> /\ running = {}
             /\ Cardinality(submitted) = processed_folders + BagCardinality(done))

\* the error of one task has reached the caller; the result of the other
\* task, finished during the wait, was never merged
C18_Witness ==
    /\ pc = "raised"
    /\ Cardinality(submitted) = 2
    /\ processed_folders = 1
    /\ BagCardinality(done) = 1
    /\ matched_files = <<>>

====
